---- MODULE Spec2Model ----
(***************************************************************************)
(* Rate-limited batch image analysis (Althafp/llm_dynamic).                *)
(*                                                                         *)
(*   lib/rate-limiter.ts   (src/unnamed/part_011)  RateLimiter,            *)
(*                                                  withRateLimit          *)
(*   lib/openai-analyzer.ts (src/unnamed/part_012) the rate-limited        *)
(*                                                  evaluator / analyzer   *)
(*   src/src/lib/openai-analyzer.ts                 the evaluator that     *)
(*                                                  calls the provider     *)
(*                                                  directly               *)
(*                                                                         *)
(* JavaScript runs each async function atomically between two awaits, so   *)
(* every action below is the code between two suspension points.           *)
(*                                                                         *)
(* Specifications:                                                         *)
(*   SpecLimiter  concurrent callers of RateLimiter.waitForSlot and        *)
(*                recordTokenUsage under a ticking clock                   *)
(*   SpecLimiterLive  the same callers with timers that fire when they are *)
(*                due and a clock that keeps running                       *)
(*   SpecEval     analyzeImage on one image: every prompt evaluation with  *)
(*                its provider calls, retries and fallback, for both       *)
(*                evaluators                                               *)
(*   SpecBatch    analyzeImages on a list of images: the groups, the       *)
(*                images of a group side by side, the progress reports     *)
(*   SpecStream   the POST handler of /api/analyze/stream                  *)
(*                (src/src/app/api/analyze/stream/route.ts): the event     *)
(*                stream, the accumulated results and the checkpoint       *)
(*                writes of saveAnalysisResults, with a consumer that      *)
(*                stays connected                                          *)
(*   SpecParse    parseAnalysisResponse and the failure path of            *)
(*                analyzeImage on the `count` values a provider answer may *)
(*                carry                                                    *)
(***************************************************************************)
EXTENDS Integers, Sequences, FiniteSets, TLC

(***************************************************************************)
(* Bounds of the model.                                                    *)
(***************************************************************************)
\* RateLimiterOptions the class is constructed with in SpecLimiter
LimMaxRequests == 2
LimMaxTokens == 4000
LimWindowMs == 300
\* concurrent callers of waitForSlot in SpecLimiter
NumCallers == 2
\* the clock of SpecLimiter stops at MaxClock
MaxClock == 500
\* SpecLimiterLive: waitForSlot is called while the clock is at most LastEntry
LastEntry == 0

\* how many of the built-in prompts form ANALYSIS_PROMPTS in the model
NumPrompts == 2
\* the longest image list analyzeImages is called with in SpecBatch
NumImages == 6
\* the longest image list of a streaming run in SpecStream
StreamImages == 11
\* how often the clock of SpecStream moves during a run
MaxTicks == 2
\* SpecParse: the numbers of a `count` field lie in -MaxValue..MaxValue, a
\* keyed breakdown has at most MaxKeys keys
MaxValue == 2
MaxKeys == 3

(***************************************************************************)
(* Program constants.                                                      *)
(***************************************************************************)
\* openaiRateLimiter = new RateLimiter({maxRequests, maxTokens, windowMs})
ProdMaxRequests == 480
ProdMaxTokens == 28000
ProdWindowMs == 60000
\* withRateLimit(fn, retries = 5)
DefaultRetries == 5
\* status of a rate-limit rejection
RateLimitStatus == 429
\* the "+ 100" added to both wait times of waitForSlot
SlackMs == 100
\* withRateLimit: const estimatedTokens = 1500
EstimatedTokens == 1500
\* analyzeImages: const concurrentImages = 4 (rate-limited analyzer)
ConcurrentImages == 4
\* analyzeImages: const batchSize = 5 (direct analyzer)
BatchSize == 5
\* stream route: const SAVE_INTERVAL = 30 * 1000
SAVE_INTERVAL == 30000
\* stream route: const SAVE_BATCH_SIZE = 10
SAVE_BATCH_SIZE == 10
\* saveAnalysisResults: the timestamp of a new result path is cut to seconds
OneSecond == 1000

\* one step of the clock
TickMs == SlackMs
\* usage.total_tokens a provider response may report
TokenChoices == {1000, 2000}
\* estimates waitForSlot is called with in SpecLimiter
EstChoices == {EstimatedTokens, LimMaxTokens + 500}

VARIABLES
  now,             \* Date.now()
  requests,        \* RateLimiter.requests: call timestamps
  tokenUsage,      \* RateLimiter.tokenUsage: {timestamp, tokens} records
  limiterOptions,  \* RateLimiter.{maxRequests, maxTokens, windowMs}
  callers,         \* SpecLimiter: each caller's position in waitForSlot
  analyzer,        \* which evaluator runs: "limited" (part_012) or
                   \* "direct" (src/src/lib/openai-analyzer.ts)
  selectedPromptIds, \* the prompt ids requested for the run (<<>>: none given)
  image,           \* SpecEval: analyzeImage's position and its return value
  evals,           \* SpecEval: one prompt evaluation per prompt of promptsToUse
  run,             \* SpecBatch: analyzeImages' position, images and results
  post,            \* SpecStream: the POST handler of /api/analyze/stream
  bucket           \* SpecStream: the result objects of the bucket and the
                   \* writes under way

limiterVars == <<now, requests, tokenUsage, limiterOptions, callers>>
evalVars == <<analyzer, selectedPromptIds, image, evals, run, post, bucket>>
vars == <<now, requests, tokenUsage, limiterOptions, callers,
          analyzer, selectedPromptIds, image, evals, run, post, bucket>>

Callers == 1..NumCallers

(***************************************************************************)
(* RateLimiter (part_011)                                                  *)
(***************************************************************************)
\* this.requests.filter(timestamp => now - timestamp < this.windowMs)
PurgeRequests(reqs, t, windowMs) ==
  SelectSeq(reqs, LAMBDA timestamp : t - timestamp < windowMs)

\* this.tokenUsage.filter(usage => now - usage.timestamp < this.windowMs)
PurgeUsage(usage, t, windowMs) ==
  SelectSeq(usage, LAMBDA u : t - u.timestamp < windowMs)

\* this.tokenUsage.reduce((sum, usage) => sum + usage.tokens, 0)
RECURSIVE SumTokens(_)
SumTokens(usage) ==
  IF usage = <<>> THEN 0 ELSE Head(usage).tokens + SumTokens(Tail(usage))

\* waitForSlot lines 79-80: this.requests.push(Date.now())
ReserveSlot(reqs, cur) == Append(reqs, cur)

\* waitForSlot lines 62-80, entered with the `now` of line 37 (now0) while
\* Date.now() is cur: either sleeps for the token window or reserves the slot
TokenCheck(reqs, usage, now0, cur, est, opts) ==
  LET newTokenCount == SumTokens(usage) + est
      waitTime == opts.windowMs - (now0 - usage[1].timestamp) + SlackMs
  IN IF newTokenCount > opts.maxTokens /\ usage # <<>> /\ waitTime > 0
     THEN [requests |-> reqs, tokenUsage |-> usage,
           pc |-> "tpmSleep", wakeAt |-> cur + waitTime]
     ELSE [requests |-> ReserveSlot(reqs, cur), tokenUsage |-> usage,
           pc |-> "admitted", wakeAt |-> 0]

\* waitForSlot lines 37-54 (and on to 80 when the request window has room)
WaitForSlotEnter(reqs, usage, cur, est, opts) ==
  LET r == PurgeRequests(reqs, cur, opts.windowMs)
      u == PurgeUsage(usage, cur, opts.windowMs)
      currentRequests == Len(r)
      waitTime == opts.windowMs - (cur - r[1]) + SlackMs
  IN IF currentRequests >= opts.maxRequests /\ r # <<>> /\ waitTime > 0
     THEN [requests |-> r, tokenUsage |-> u,
           pc |-> "rpmSleep", wakeAt |-> cur + waitTime]
     ELSE TokenCheck(r, u, cur, cur, est, opts)

\* waitForSlot lines 55-80: after the sleep for the request window
WaitForSlotWakeRpm(reqs, usage, now0, cur, est, opts) ==
  TokenCheck(PurgeRequests(reqs, cur, opts.windowMs),
             PurgeUsage(usage, cur, opts.windowMs), now0, cur, est, opts)

\* the wake-up as it would be if the caller slept again while token
\* records remain in the window
WaitForSlotWakeTpmSleepsAgain(reqs, usage, cur, opts) ==
  IF PurgeUsage(usage, cur, opts.windowMs) # <<>>
  THEN [requests |-> reqs, tokenUsage |-> PurgeUsage(usage, cur, opts.windowMs),
        pc |-> "tpmSleep", wakeAt |-> cur + opts.windowMs + SlackMs]
  ELSE [requests |-> ReserveSlot(reqs, cur),
        tokenUsage |-> PurgeUsage(usage, cur, opts.windowMs),
        pc |-> "admitted", wakeAt |-> 0]

\* waitForSlot lines 72-80: after the sleep for the token window
WaitForSlotWakeTpm(reqs, usage, cur, opts) ==
  [requests |-> ReserveSlot(reqs, cur),
   tokenUsage |-> PurgeUsage(usage, cur, opts.windowMs),
   pc |-> "admitted", wakeAt |-> 0]

\* recordTokenUsage lines 87-92
RecordTokenUsage(usage, cur, tokens) ==
  Append(usage, [timestamp |-> cur, tokens |-> tokens])

\* getUsageStats lines 97-106, without the write-back of the purged logs
UsageStats ==
  [requests |-> Len(PurgeRequests(requests, now, limiterOptions.windowMs)),
   tokens |-> SumTokens(PurgeUsage(tokenUsage, now, limiterOptions.windowMs))]

(***************************************************************************)
(* SpecLimiter: concurrent callers of the limiter                          *)
(***************************************************************************)
IdleCaller == [pc |-> "idle", now0 |-> 0, wakeAt |-> 0, est |-> 0]

InitLimiter ==
  /\ now = 0
  /\ requests = <<>>
  /\ tokenUsage = <<>>
  /\ limiterOptions = [maxRequests |-> LimMaxRequests,
                       maxTokens |-> LimMaxTokens,
                       windowMs |-> LimWindowMs]
  /\ callers = [c \in Callers |-> IdleCaller]
  /\ analyzer = "limited"
  /\ selectedPromptIds = <<>>
  /\ image = [pc |-> "unused"]
  /\ evals = <<>>
  /\ run = [pc |-> "unused"]
  /\ post = [pc |-> "unused"]
  /\ bucket = [pc |-> "unused"]

\* a caller's state after a step of waitForSlot that returned r
AfterStep(c, r, now0, est) ==
  /\ requests' = r.requests
  /\ tokenUsage' = r.tokenUsage
  /\ callers' = [callers EXCEPT ![c] =
       IF r.pc = "admitted"
       THEN [pc |-> "inflight", now0 |-> 0, wakeAt |-> 0, est |-> est]
       ELSE [pc |-> r.pc, now0 |-> now0, wakeAt |-> r.wakeAt, est |-> est]]

\* a caller calls waitForSlot(est)
CallerEnter(c) ==
  /\ callers[c].pc = "idle"
  /\ \E est \in EstChoices :
       AfterStep(c, WaitForSlotEnter(requests, tokenUsage, now, est, limiterOptions),
                 now, est)
  /\ UNCHANGED <<now, limiterOptions>>
  /\ UNCHANGED evalVars

\* the timer of line 54 fires
CallerWakeRpm(c) ==
  /\ callers[c].pc = "rpmSleep"
  /\ now >= callers[c].wakeAt
  /\ AfterStep(c, WaitForSlotWakeRpm(requests, tokenUsage, callers[c].now0, now,
                                     callers[c].est, limiterOptions),
               callers[c].now0, callers[c].est)
  /\ UNCHANGED <<now, limiterOptions>>
  /\ UNCHANGED evalVars

\* the timer of line 71 fires
CallerWakeTpm(c) ==
  /\ callers[c].pc = "tpmSleep"
  /\ now >= callers[c].wakeAt
  /\ AfterStep(c, WaitForSlotWakeTpm(requests, tokenUsage, now, limiterOptions),
               callers[c].now0, callers[c].est)
  /\ UNCHANGED <<now, limiterOptions>>
  /\ UNCHANGED evalVars

\* the admitted call is answered and its usage recorded
CallerRecord(c) ==
  /\ callers[c].pc = "inflight"
  /\ \E tokens \in TokenChoices :
       tokenUsage' = RecordTokenUsage(tokenUsage, now, tokens)
  /\ callers' = [callers EXCEPT ![c] = IdleCaller]
  /\ UNCHANGED <<now, requests, limiterOptions>>
  /\ UNCHANGED evalVars

\* the admitted call fails: nothing is recorded
CallerFail(c) ==
  /\ callers[c].pc = "inflight"
  /\ callers' = [callers EXCEPT ![c] = IdleCaller]
  /\ UNCHANGED <<now, requests, tokenUsage, limiterOptions>>
  /\ UNCHANGED evalVars

Tick ==
  /\ now < MaxClock
  /\ now' = now + TickMs
  /\ UNCHANGED <<requests, tokenUsage, limiterOptions, callers>>
  /\ UNCHANGED evalVars

NextLimiter ==
  \/ \E c \in Callers : CallerEnter(c)
  \/ \E c \in Callers : CallerWakeRpm(c)
  \/ \E c \in Callers : CallerWakeTpm(c)
  \/ \E c \in Callers : CallerRecord(c)
  \/ \E c \in Callers : CallerFail(c)
  \/ Tick

SpecLimiter == InitLimiter /\ [][NextLimiter]_vars

(***************************************************************************)
(* SpecLimiterLive: the callers under timers that fire and a running clock *)
(***************************************************************************)
Sleeping(c) == callers[c].pc \in {"rpmSleep", "tpmSleep"}

\* the clock runs long enough for the latest wake-up of a call entered by
\* LastEntry: a request-window sleep, then a token-window sleep computed
\* from the `now` of line 37
LiveMaxClock == 2 * LastEntry + 3 * (LimWindowMs + SlackMs + TickMs)

\* waitForSlot is called, until LastEntry
CallerEnterLive(c) ==
  /\ now <= LastEntry
  /\ CallerEnter(c)

\* time passes; a timer that is due fires before the clock moves on
TickLive ==
  /\ now < LiveMaxClock
  /\ \A c \in Callers : Sleeping(c) => now < callers[c].wakeAt
  /\ now' = now + TickMs
  /\ UNCHANGED <<requests, tokenUsage, limiterOptions, callers>>
  /\ UNCHANGED evalVars

NextLimiterLive ==
  \/ \E c \in Callers : CallerEnterLive(c)
  \/ \E c \in Callers : CallerWakeRpm(c)
  \/ \E c \in Callers : CallerWakeTpm(c)
  \/ \E c \in Callers : CallerRecord(c)
  \/ \E c \in Callers : CallerFail(c)
  \/ TickLive

\* setTimeout: a timer that is due fires, and time does not stop
SpecLimiterLive ==
  /\ InitLimiter
  /\ [][NextLimiterLive]_vars
  /\ WF_vars(TickLive)
  /\ \A c \in Callers : WF_vars(CallerWakeRpm(c)) /\ WF_vars(CallerWakeTpm(c))

\* C1: at every moment the number of call timestamps inside the trailing
\* window is at most maxRequests, whatever the interleaving of the callers.
C1_RequestCeiling == UsageStats.requests <= limiterOptions.maxRequests

\* C2: at every moment the sum of the token records inside the trailing
\* window is at most maxTokens.
C2_TokenCeiling == UsageStats.tokens <= limiterOptions.maxTokens

\* the estimates of the calls admitted and not yet answered
RECURSIVE InFlightEstimates(_)
InFlightEstimates(cs) ==
  IF cs = {} THEN 0
  ELSE LET c == CHOOSE c \in cs : TRUE
       IN (IF callers[c].pc = "inflight" THEN callers[c].est ELSE 0)
          + InFlightEstimates(cs \ {c})

\* C24: from its admission until its usage is recorded a call's estimate is
\* part of the limiter's token accounting: the tokens counted in the window
\* are at least the estimates of the calls in flight.
C24_EstimateHeldWhileInFlight ==
  UsageStats.tokens >= InFlightEstimates(Callers)

\* the longest sleep of waitForSlot: a window and the slack, and for the
\* token window also the time the call has already slept
SleepBound == 2 * (LimWindowMs + SlackMs) + TickMs

\* a step of caller c inside waitForSlot keeps to the order of the function:
\* at most one sleep for the request window, then at most one for the token
\* window, each bounded, then the slot is reserved
WaitForSlotOrder(c) ==
  LET pc0 == callers[c].pc
      pc1 == callers'[c].pc
  IN callers'[c] # callers[c] =>
       /\ pc0 = "rpmSleep" => pc1 \in {"tpmSleep", "inflight"}
       /\ pc0 = "tpmSleep" => pc1 = "inflight"
       /\ pc1 = "rpmSleep" => pc0 = "idle"
       /\ pc1 \in {"rpmSleep", "tpmSleep"} =>
            (callers'[c].wakeAt > now /\ callers'[c].wakeAt - now <= SleepBound)
       /\ pc1 = "inflight" =>
            (requests' # <<>> /\ requests'[Len(requests')] = now)

Range(f) == {f[i] : i \in DOMAIN f}

\* analysis-prompts.ts: the ids of DEFAULT_PROMPTS, in order
AllPromptIds ==
  <<"crowd_detection", "no_parking", "garbage_detection",
    "pothole_detection", "congestion_detection", "wrong_driving">>

\* analysis-prompts.ts: ANALYSIS_PROMPTS = DEFAULT_PROMPTS (its first NumPrompts)
ANALYSIS_PROMPTS == SubSeq(AllPromptIds, 1, NumPrompts)

\* prompt ids a request may carry in analysisTypes: none, a subset, a
\* reordered set, an id of a custom prompt, a repeated id
SelectedChoices ==
  { <<>>,
    <<ANALYSIS_PROMPTS[1]>>,
    <<ANALYSIS_PROMPTS[NumPrompts], ANALYSIS_PROMPTS[1]>>,
    <<"custom_1", ANALYSIS_PROMPTS[1]>>,
    <<ANALYSIS_PROMPTS[1], ANALYSIS_PROMPTS[1]>> }

\* errors: what the code reads of a thrown Error is its status and message
Err(status, message) == [status |-> status, message |-> message]
NoError == Err(-1, "")
RateLimitError == Err(RateLimitStatus, "Rate limit reached for gpt-4o")
FetchTimeoutError == Err(400, "Timeout while downloading the image")
ServerError == Err(500, "The server had an error")
NoResponseError == Err(0, "No response from OpenAI")
ParseError == Err(0, "Unexpected end of JSON input")
DownloadError == Err(0, "No such object")
SignError == Err(0, "Could not load the default credentials")
MaxRetriesError == Err(0, "Max retries exceeded")

\* the failures of openai.chat.completions.create
ProviderErrors == {RateLimitError, FetchTimeoutError, ServerError}

\* messages that include 'Timeout', 'timeout' or 'downloading'
TimeoutMessages == {FetchTimeoutError.message}

\* isTimeout as it would be if every caught error were taken for a timeout
IsTimeoutAnyError(urlError) == urlError # NoError

\* evaluator lines 182-185: isTimeout
IsTimeout(urlError) ==
  \/ urlError.message \in TimeoutMessages
  \/ (urlError.status = 400 /\ urlError.message \in TimeoutMessages)

\* JSON values of the `count` field
Num(n) == [t |-> "number", n |-> n, vals |-> <<>>]
Obj(vals) == [t |-> "object", n |-> 0, vals |-> vals]
Str == [t |-> "string", n |-> 0, vals |-> <<>>]
Null == [t |-> "null", n |-> 0, vals |-> <<>>]

\* parseAnalysisResponse lines 69-71: the reduce over Object.values(count)
RECURSIVE SumNumeric(_)
SumNumeric(vals) ==
  IF vals = <<>> THEN 0
  ELSE (IF Head(vals).t = "number" THEN Head(vals).n ELSE 0) + SumNumeric(Tail(vals))

\* the normalisation as it would be if only a scalar count were read
NormalizeCountScalarOnly(count) ==
  IF count.t = "number" THEN count.n ELSE 0

\* parseAnalysisResponse lines 64-72
NormalizeCount(count) ==
  IF count.t = "number" THEN count.n
  ELSE IF count.t = "object" THEN SumNumeric(count.vals)
  ELSE 0

\* parseAnalysisResponse lines 62-97 and the promptId the evaluator sets
\* (lines 175-179)
ParseAnalysisResponse(parsed, promptId) ==
  [promptId |-> promptId,
   match |-> (parsed.match = TRUE),
   count |-> NormalizeCount(parsed.count),
   description |-> parsed.description,
   details |-> parsed.details,
   confidence |-> IF parsed.confidence = "" THEN "medium" ELSE parsed.confidence]

\* JSON documents the provider may answer with
ParsedChoices ==
  { [match |-> TRUE, count |-> Num(2), description |-> "two trucks",
     details |-> "parked near the gate", confidence |-> "high"],
    [match |-> FALSE, count |-> Obj(<<Num(2), Num(3), Str>>), description |-> "vehicles",
     details |-> "mixed traffic", confidence |-> ""] }

\* response.choices[0].message.content: nothing, text that is no JSON, JSON
NoParsed ==
  [match |-> FALSE, count |-> Str, description |-> "", details |-> "",
   confidence |-> ""]
Contents ==
  {[kind |-> "empty", parsed |-> NoParsed], [kind |-> "notJson", parsed |-> NoParsed]}
  \cup {[kind |-> "json", parsed |-> p] : p \in ParsedChoices}

\* response.usage.total_tokens; NoUsage: the response reports no usage
NoUsage == 0
UsageChoices == {NoUsage, 1200}

NoResult ==
  [promptId |-> "", match |-> FALSE, count |-> 0, description |-> "",
   details |-> "", confidence |-> ""]

\* the failed result as it would be if the error's message were dropped
FailedResultNoMessage(promptId, error) ==
  [promptId |-> promptId, match |-> FALSE, count |-> 0,
   description |-> "Analysis failed", details |-> "Unknown error",
   confidence |-> "low"]

\* analyzeImage lines 309-317: the result pushed when the evaluation throws
FailedResult(promptId, error) ==
  [promptId |-> promptId, match |-> FALSE, count |-> 0,
   description |-> "Analysis failed", details |-> error.message,
   confidence |-> "low"]

\* analyzeImage lines 282-284
PromptsToUse(selected) ==
  IF Len(selected) > 0
  THEN SelectSeq(ANALYSIS_PROMPTS, LAMBDA p : p \in Range(selected))
  ELSE ANALYSIS_PROMPTS

\* analyzeImage lines 326-333
SuccessImage(task, results) ==
  [filename |-> task.filename, imagePath |-> task.path, results |-> results,
   status |-> "success", error |-> ""]

\* the error result as it would be if it carried a fabricated prompt result
ErrorImageWithResults(task, error) ==
  [filename |-> task.filename, imagePath |-> task.path,
   results |-> <<[promptId |-> "", match |-> FALSE, count |-> 0,
                  description |-> "Analysis failed", details |-> error.message,
                  confidence |-> "low"]>>,
   status |-> "error", error |-> error.message]

\* analyzeImage lines 337-345
ErrorImage(task, error) ==
  [filename |-> task.filename, imagePath |-> task.path, results |-> <<>>,
   status |-> "error", error |-> error.message]

\* the retry test as it would be with the bound off by one
ShouldRetryOffByOne(error, attempt, retries) ==
  error.status = RateLimitStatus /\ attempt < retries

\* withRateLimit lines 142 and 163: retry after this failure of attempt `attempt`
ShouldRetry(error, attempt, retries) ==
  error.status = RateLimitStatus /\ attempt < retries - 1

\* the n-th image of the run: {path, filename}
Task(n) == [path |-> n, filename |-> n]

\* getImageUrl: the signed reference of an object
SignedUrl(path) == <<"signed", path>>
\* getImageAsBase64: the inline bytes of an object
InlineBytes(path) == <<"base64", path>>
NoRef == <<>>

(***************************************************************************)
(* SpecEval: analyzeImage on one image                                     *)
(***************************************************************************)
\* one evaluation (analyzeImageWithPromptUsingUrl) of one prompt, kept until
\* the loop of analyzeImage starts the next one (pc "returned").  Besides
\* the position (pc, tier, attempt) it keeps what the evaluation did:
\*   calls1, calls2  provider calls issued with the signed URL / inline bytes
\*   ungated         provider calls issued without a completed waitForSlot
\*   fnCalls, errs   fn invocations and failures of the current withRateLimit
\*   rejected        the error the current withRateLimit rejected with
\*   t1Error         the error caught by catch (urlError)
\*   tier2           Tier-2 attempts started
\*   owed, recorded  total_tokens of the responses that reported usage, and
\*                   the total_tokens passed to recordTokenUsage
\*   thrown, result  the error the evaluation threw, and the AnalysisResult
\*                   analyzeImage holds for the prompt
IdleEval ==
  [pc |-> "todo", tier |-> 1, attempt |-> 0, admitted |-> FALSE,
   calls1 |-> 0, calls2 |-> 0, ungated |-> 0, ref1 |-> NoRef, ref2 |-> NoRef,
   fnCalls |-> 0, errs |-> <<>>, rejected |-> NoError,
   t1Error |-> NoError, tier2 |-> 0, owed |-> <<>>, recorded |-> <<>>,
   thrown |-> NoError, result |-> NoResult]

NoReturn ==
  [filename |-> 0, imagePath |-> 0, results |-> <<>>, status |-> "pending",
   error |-> ""]

ProdOptions ==
  [maxRequests |-> ProdMaxRequests, maxTokens |-> ProdMaxTokens,
   windowMs |-> ProdWindowMs]

InitEval ==
  /\ now = 0
  /\ requests = <<>>
  /\ tokenUsage = <<>>
  /\ limiterOptions = ProdOptions
  /\ callers = [c \in Callers |-> IdleCaller]
  /\ analyzer \in {"limited", "direct"}
  /\ selectedPromptIds \in SelectedChoices
  /\ image = [pc |-> "start", task |-> Task(1), signedUrl |-> NoRef,
              urlCalls |-> 0, urlError |-> NoError, results |-> <<>>,
              ret |-> NoReturn]
  /\ evals = [k \in 1..Len(PromptsToUse(selectedPromptIds)) |-> IdleEval]
  /\ run = [pc |-> "unused"]
  /\ post = [pc |-> "unused"]
  /\ bucket = [pc |-> "unused"]

PromptOf(k) == PromptsToUse(selectedPromptIds)[k]

\* the provider call as it would be if Tier 1 sent the URL of the listing
\* instead of the reference analyzeImage derived
IssueProviderCallListedUrl(ev, ref) ==
  [ev EXCEPT !.pc = "inflight",
             !.calls1 = IF ev.tier = 1 THEN @ + 1 ELSE @,
             !.calls2 = IF ev.tier = 2 THEN @ + 1 ELSE @,
             !.ref1 = IF ev.tier = 1 THEN <<"listed", ref>> ELSE @,
             !.ref2 = IF ev.tier = 2 THEN ref ELSE @,
             !.ungated = IF ev.admitted THEN @ ELSE @ + 1,
             !.admitted = FALSE]

\* the provider call itself (openai.chat.completions.create) is issued with
\* reference ref: lines 125-145 and 199-219, direct evaluator 122-142, 180-200
IssueProviderCall(ev, ref) ==
  [ev EXCEPT !.pc = "inflight",
             !.calls1 = IF ev.tier = 1 THEN @ + 1 ELSE @,
             !.calls2 = IF ev.tier = 2 THEN @ + 1 ELSE @,
             !.ref1 = IF ev.tier = 1 THEN ref ELSE @,
             !.ref2 = IF ev.tier = 2 THEN ref ELSE @,
             !.ungated = IF ev.admitted THEN @ ELSE @ + 1,
             !.admitted = FALSE]

\* evaluator lines 180-258 (catch (urlError)) and analyzeImage lines 306-317:
\* an error e leaves the Tier-1 or Tier-2 try block
AfterThrow(ev, e, promptId) ==
  IF ev.tier = 1 /\ IsTimeout(e)
  THEN [ev EXCEPT !.pc = "download", !.t1Error = e]
  ELSE [ev EXCEPT !.pc = "done",
                  !.t1Error = IF ev.tier = 1 THEN e ELSE @,
                  !.thrown = e,
                  !.result = FailedResult(promptId, e)]

\* evaluator lines 166-170 and 240-244: the usage of this response is
\* passed to recordTokenUsage (the direct evaluator never records)
RecordsUsage(variant, usage, content) ==
  variant = "limited" /\ content.kind = "json" /\ usage # NoUsage

\* evaluator lines 148-179 and 222-253: the provider answered
AfterResponse(ev, promptId, variant, usage, content) ==
  LET ev1 == [ev EXCEPT !.owed = IF usage # NoUsage THEN Append(@, usage) ELSE @]
  IN IF content.kind = "empty" THEN AfterThrow(ev1, NoResponseError, promptId)
     ELSE IF content.kind = "notJson" THEN AfterThrow(ev1, ParseError, promptId)
     ELSE [ev1 EXCEPT !.pc = "done",
                      !.result = ParseAnalysisResponse(content.parsed, promptId),
                      !.recorded = IF RecordsUsage(variant, usage, content)
                                   THEN Append(@, usage) ELSE @]

\* withRateLimit lines 140-171: fn failed with e in attempt ev.attempt
AfterFailure(ev, e, promptId, variant) ==
  IF variant = "direct" THEN AfterThrow(ev, e, promptId)
  ELSE LET ev1 == [ev EXCEPT !.errs = Append(@, e)]
       IN IF ShouldRetry(e, ev.attempt, DefaultRetries)
          THEN [ev1 EXCEPT !.pc = "backoff"]
          ELSE AfterThrow([ev1 EXCEPT !.rejected = e], e, promptId)

\* the evaluation's new state ev is stored; analyzeImage pushes the result
\* of a finished evaluation (lines 305 and 309)
Settle(k, ev) ==
  /\ evals' = [evals EXCEPT ![k] = ev]
  /\ image' = IF ev.pc = "done" /\ analyzer = "limited"
              THEN [image EXCEPT !.results = Append(@, ev.result)]
              ELSE image

\* the admission as it would be if a retry kept the slot of the attempt
\* that was rejected
AdmitRetryKeepsSlot(k, ev, others) ==
  /\ requests' = IF ev.attempt = 0 THEN Append(requests, now) ELSE requests
  /\ tokenUsage' = tokenUsage
  /\ evals' = [others EXCEPT ![k] = [ev EXCEPT !.pc = "admitted", !.admitted = TRUE]]

\* withRateLimit line 134: waitForSlot(estimatedTokens) reserves a slot.  With
\* the limits of openaiRateLimiter one image never fills a window, so the
\* call returns without sleeping (NoSleepInEval); the sleeps are SpecLimiter's
Admit(k, ev, others) ==
  LET r == WaitForSlotEnter(requests, tokenUsage, now, EstimatedTokens, limiterOptions)
  IN /\ r.pc = "admitted"
     /\ requests' = r.requests
     /\ tokenUsage' = r.tokenUsage
     /\ evals' = [others EXCEPT ![k] = [ev EXCEPT !.pc = "admitted", !.admitted = TRUE]]

\* an evaluation whose result the loop has taken: only the result is kept
Returned(ev) == [IdleEval EXCEPT !.pc = "returned", !.result = ev.result]

\* analyzeImage runs up to `await getImageUrl(imagePath)`
ImageStart ==
  /\ image.pc = "start"
  /\ image' = [image EXCEPT !.pc = "url", !.urlCalls = @ + 1]
  /\ UNCHANGED <<analyzer, selectedPromptIds, run, post, bucket, evals>>
  /\ UNCHANGED limiterVars

\* getImageUrl resolves.  The direct analyzer maps every prompt to an
\* evaluation at once and each runs up to its provider call (lines 267-270)
UrlResolves ==
  /\ image.pc = "url"
  /\ image' = [image EXCEPT !.pc = "prompts", !.signedUrl = SignedUrl(image.task.path)]
  /\ evals' = IF analyzer = "direct"
              THEN [k \in DOMAIN evals |->
                      IssueProviderCall(evals[k], SignedUrl(image.task.path))]
              ELSE evals
  /\ UNCHANGED <<analyzer, selectedPromptIds, run, post, bucket>>
  /\ UNCHANGED limiterVars

\* getImageUrl rejects: analyzeImage's outer catch (lines 334-346)
UrlFails ==
  /\ image.pc = "url"
  /\ image' = [image EXCEPT !.pc = "done", !.urlError = SignError,
                            !.ret = ErrorImage(image.task, SignError)]
  /\ UNCHANGED <<analyzer, selectedPromptIds, run, post, bucket, evals>>
  /\ UNCHANGED limiterVars

\* limited analyzer: the loop of line 302 reaches prompt k and its Tier-1
\* withRateLimit asks for a slot
BeginEval(k) ==
  /\ analyzer = "limited"
  /\ image.pc = "prompts"
  /\ evals[k].pc = "todo"
  /\ k = Len(image.results) + 1
  /\ Admit(k, evals[k],
           IF k > 1 THEN [evals EXCEPT ![k - 1] = Returned(@)] ELSE evals)
  /\ UNCHANGED <<now, limiterOptions, callers, analyzer, selectedPromptIds, run, post, bucket, image>>

\* withRateLimit line 137: fn() issues the provider call
IssueCall(k) ==
  /\ evals[k].pc = "admitted"
  /\ evals' = [evals EXCEPT ![k] =
       IssueProviderCall([@ EXCEPT !.fnCalls = @ + 1],
                         IF @.tier = 1 THEN image.signedUrl
                         ELSE InlineBytes(image.task.path))]
  /\ UNCHANGED <<analyzer, selectedPromptIds, run, post, bucket, image>>
  /\ UNCHANGED limiterVars

\* the provider answers the call in flight
ProviderResponds(k) ==
  /\ evals[k].pc = "inflight"
  /\ \E usage \in UsageChoices, content \in Contents :
       /\ Settle(k, AfterResponse(evals[k], PromptOf(k), analyzer, usage, content))
       /\ tokenUsage' = IF RecordsUsage(analyzer, usage, content)
                        THEN RecordTokenUsage(tokenUsage, now, usage)
                        ELSE tokenUsage
  /\ UNCHANGED <<now, requests, limiterOptions, callers, analyzer, selectedPromptIds, run, post, bucket>>

\* the provider call in flight fails
ProviderFails(k) ==
  /\ evals[k].pc = "inflight"
  /\ \E e \in ProviderErrors :
       Settle(k, AfterFailure(evals[k], e, PromptOf(k), analyzer))
  /\ UNCHANGED <<analyzer, selectedPromptIds, run, post, bucket>>
  /\ UNCHANGED limiterVars

\* withRateLimit lines 164-165 and 131-134: the backoff sleep ends, the loop
\* goes on with the next attempt (or leaves, line 174)
BackoffEnds(k) ==
  /\ evals[k].pc = "backoff"
  /\ LET ev == [evals[k] EXCEPT !.attempt = @ + 1]
     IN IF ev.attempt < DefaultRetries
        THEN /\ Admit(k, ev, evals)
             /\ UNCHANGED image
        ELSE /\ Settle(k, AfterThrow([ev EXCEPT !.rejected = MaxRetriesError],
                                     MaxRetriesError, PromptOf(k)))
             /\ UNCHANGED <<requests, tokenUsage>>
  /\ UNCHANGED <<now, limiterOptions, callers, analyzer, selectedPromptIds, run, post, bucket>>

\* evaluator lines 192-198: getImageAsBase64 resolves and Tier 2 starts
DownloadOk(k) ==
  /\ evals[k].pc = "download"
  /\ LET ev == [evals[k] EXCEPT !.tier = 2, !.tier2 = @ + 1, !.attempt = 0,
                                !.fnCalls = 0, !.errs = <<>>, !.rejected = NoError]
     IN IF analyzer = "limited"
        THEN Admit(k, ev, evals)
        ELSE /\ evals' = [evals EXCEPT ![k] =
                            IssueProviderCall(ev, InlineBytes(image.task.path))]
             /\ UNCHANGED <<requests, tokenUsage>>
  /\ UNCHANGED <<now, limiterOptions, callers, analyzer, selectedPromptIds, run, post, bucket, image>>

\* evaluator line 192: getImageAsBase64 rejects
DownloadFails(k) ==
  /\ evals[k].pc = "download"
  /\ Settle(k, [evals[k] EXCEPT !.pc = "done", !.thrown = DownloadError,
                                !.result = FailedResult(PromptOf(k), DownloadError)])
  /\ UNCHANGED <<analyzer, selectedPromptIds, run, post, bucket>>
  /\ UNCHANGED limiterVars

\* analyzeImage lines 321-333: every prompt has its result (limited: the
\* loop ended; direct: Promise.all resolved, in prompt order)
ImageFinish ==
  /\ image.pc = "prompts"
  /\ \A k \in DOMAIN evals : evals[k].pc \in {"done", "returned"}
  /\ analyzer = "limited" => Len(image.results) = Len(evals)
  /\ LET results == IF analyzer = "limited" THEN image.results
                    ELSE [k \in DOMAIN evals |-> evals[k].result]
     IN image' = [image EXCEPT !.pc = "done", !.results = results,
                               !.ret = SuccessImage(image.task, results)]
  /\ UNCHANGED <<analyzer, selectedPromptIds, run, post, bucket, evals>>
  /\ UNCHANGED limiterVars

NextEval ==
  \/ ImageStart
  \/ UrlResolves
  \/ UrlFails
  \/ \E k \in DOMAIN evals : BeginEval(k)
  \/ \E k \in DOMAIN evals : IssueCall(k)
  \/ \E k \in DOMAIN evals : ProviderResponds(k)
  \/ \E k \in DOMAIN evals : ProviderFails(k)
  \/ \E k \in DOMAIN evals : BackoffEnds(k)
  \/ \E k \in DOMAIN evals : DownloadOk(k)
  \/ \E k \in DOMAIN evals : DownloadFails(k)
  \/ ImageFinish

SpecEval == InitEval /\ [][NextEval]_vars

\* within SpecEval's bounds waitForSlot has room in both windows
NoSleepInEval ==
  WaitForSlotEnter(requests, tokenUsage, now, EstimatedTokens, limiterOptions).pc
    = "admitted"

Done(k) == evals[k].pc = "done"
ImageReturned == image.pc = "done"
IsTimeoutMessage(e) == e.message \in TimeoutMessages
Last(seq) == seq[Len(seq)]

\* C3: every provider call of every evaluation, with the signed URL or with
\* the inline bytes, was issued after a waitForSlot admission completed for it.
C3_EveryCallGated == \A k \in DOMAIN evals : evals[k].ungated = 0

\* C4: when the rate-limited evaluator is done with a prompt, every response
\* that reported usage has been passed to recordTokenUsage exactly once,
\* whatever its content was.
C4_UsageRecordedOnce ==
  \A k \in DOMAIN evals :
    (analyzer = "limited" /\ Done(k)) => evals[k].recorded = evals[k].owed

\* C5: withRateLimit invokes fn again only after fn failed with status 429,
\* at most 5 times in all, and rejects with fn's error on the 5th rejection
\* or on the first error that is no 429.
C5_RetryOnly429AtMost5 ==
  \A k \in DOMAIN evals :
    LET ev == evals[k]
        n == Len(ev.errs)
    IN /\ ev.fnCalls <= 5
       /\ ev.fnCalls <= n + 1
       /\ \A j \in 1..n : j < ev.fnCalls => ev.errs[j].status = 429
       /\ (n >= 1 /\ (Last(ev.errs).status # 429 \/ n = 5))
            => (ev.rejected = Last(ev.errs) /\ ev.fnCalls = n)
       /\ ev.rejected # NoError
            => (n >= 1 /\ ev.rejected = Last(ev.errs)
                /\ (Last(ev.errs).status # 429 \/ n = 5))

\* C5 witness: a withRateLimit call was rejected 5 times with 429 and
\* rejected with that error after 5 invocations of fn.
C5_Witness ==
  \E k \in DOMAIN evals :
    /\ evals[k].fnCalls = 5
    /\ Len(evals[k].errs) = 5
    /\ evals[k].rejected.status = 429

\* C6: a prompt whose evaluation threw has the result match=false, count=0,
\* confidence=low, details=the error's message; the image still returns
\* status=success with one result per prompt, in prompt order, and analyzeImage
\* is never stuck before it returns.
C6_PromptFailureIsLocal ==
  /\ \A k \in DOMAIN evals :
       (Done(k) /\ evals[k].thrown # NoError) =>
         /\ evals[k].result.promptId = PromptOf(k)
         /\ evals[k].result.match = FALSE
         /\ evals[k].result.count = 0
         /\ evals[k].result.confidence = "low"
         /\ evals[k].result.details = evals[k].thrown.message
         /\ analyzer = "limited" => image.results[k] = evals[k].result
         /\ ImageReturned =>
              (image.ret.status = "success" /\ image.ret.results[k] = evals[k].result)
  /\ (ImageReturned /\ image.urlError = NoError) =>
       /\ image.ret.status = "success"
       /\ Len(image.ret.results) = Len(evals)
       /\ \A k \in DOMAIN evals : image.ret.results[k].promptId = PromptOf(k)
  /\ ~ImageReturned => ENABLED NextEval

\* C6 witness: the first prompt failed, the second was still evaluated with
\* a match, and the image returned success.
C6_Witness ==
  /\ ImageReturned
  /\ image.ret.status = "success"
  /\ Len(image.ret.results) = 2
  /\ image.ret.results[1].description = "Analysis failed"
  /\ image.ret.results[1].details = ServerError.message
  /\ image.ret.results[2].match = TRUE

\* C7 (as claimed): an evaluation whose Tier-1 call failed with an
\* image-fetch timeout made exactly one further provider call, and every
\* other evaluation made no provider call after its first.
C7_OneFurtherCall ==
  \A k \in DOMAIN evals :
    Done(k) =>
      evals[k].calls1 + evals[k].calls2
        = IF IsTimeoutMessage(evals[k].t1Error) THEN 2 ELSE 1

\* C7 (amended): an evaluation starts a Tier-2 attempt, with the inline
\* bytes, exactly once when its Tier-1 attempt ended with an error classified
\* as a timeout and the bytes were downloaded, and never otherwise; inside an
\* attempt the provider call is repeated only after a 429 rejection.
C7_FallbackOnlyOnTimeout ==
  \A k \in DOMAIN evals :
    LET ev == evals[k]
        retried == Cardinality({j \in DOMAIN ev.errs : ev.errs[j].status = 429})
    IN /\ ev.tier2 <= 1
       /\ ev.calls2 <= 5 * ev.tier2
       /\ ev.calls2 > 0 => ev.ref2 = InlineBytes(image.task.path)
       /\ ev.tier2 = 1 => IsTimeoutMessage(ev.t1Error)
       /\ ev.fnCalls <= 1 + retried
       /\ analyzer = "direct" => (ev.calls1 <= 1 /\ ev.calls2 <= 1)
       /\ Done(k) =>
            IF IsTimeoutMessage(ev.t1Error)
            THEN \/ ev.tier2 = 1 /\ ev.calls2 >= 1
                 \/ ev.tier2 = 0 /\ ev.calls2 = 0 /\ ev.thrown = DownloadError
            ELSE ev.tier2 = 0 /\ ev.calls2 = 0

\* C7 witness: a Tier-1 attempt ended with the timeout after a 429 retry and
\* the one Tier-2 attempt needed two provider calls.
C7_Witness ==
  \E k \in DOMAIN evals :
    /\ Done(k)
    /\ evals[k].t1Error = FetchTimeoutError
    /\ evals[k].calls1 = 2
    /\ evals[k].tier2 = 1
    /\ evals[k].calls2 = 2
    /\ evals[k].thrown = NoError

\* the prompt set requested for the run
Requested ==
  IF selectedPromptIds = <<>> THEN Range(ANALYSIS_PROMPTS)
  ELSE Range(selectedPromptIds)

\* C8: a returned image with status=success has as many results as the
\* requested prompt set has prompts, with pairwise distinct promptIds that
\* all belong to that set.
C8_ResultsMatchRequest ==
  (ImageReturned /\ image.ret.status = "success") =>
    LET rs == image.ret.results
    IN /\ Len(rs) = Cardinality(Requested)
       /\ \A i, j \in DOMAIN rs : rs[i].promptId = rs[j].promptId => i = j
       /\ \A i \in DOMAIN rs : rs[i].promptId \in Requested

\* C9: when getImageUrl fails, analyzeImage returns status=error with the
\* error's message and no results, and no provider call was made; every
\* returned image with status=error has no results.
C9_UrlFailureIsError ==
  /\ image.urlError # NoError =>
       /\ ImageReturned
       /\ image.ret.status = "error"
       /\ image.ret.error = image.urlError.message
       /\ image.ret.results = <<>>
       /\ \A k \in DOMAIN evals :
            evals[k].calls1 = 0 /\ evals[k].calls2 = 0 /\ evals[k].pc = "todo"
  /\ (ImageReturned /\ image.ret.status = "error") => image.ret.results = <<>>

\* C9 witness: the signed reference of an image with two prompts failed.
C9_Witness ==
  /\ ImageReturned
  /\ image.urlError = SignError
  /\ image.ret.status = "error"
  /\ Len(evals) = 2

AttemptStep(k) ==
  /\ (~evals[k].admitted /\ evals'[k].admitted) =>
       (requests' = Append(requests, now) /\ tokenUsage' = tokenUsage)
  /\ evals'[k].fnCalls = evals[k].fnCalls + 1 =>
       (evals[k].admitted /\ ~evals'[k].admitted /\ requests' = requests)
  /\ Len(evals'[k].errs) = Len(evals[k].errs) + 1 =>
       (requests' = requests /\ tokenUsage' = tokenUsage)

\* the request window while the first evaluation of the image runs: one
\* entry per attempt, k + 1 entries for a call answered after k rejections
WindowOfFirstEval ==
  (evals # <<>> /\ evals[1].pc # "returned") =>
    LET ev == evals[1]
    IN /\ Len(requests) = ev.calls1 + ev.calls2 + (IF ev.admitted THEN 1 ELSE 0)
       /\ Len(tokenUsage) = Len(ev.recorded)
       /\ (Done(1) /\ ev.thrown = NoError /\ ev.tier2 = 0) =>
            /\ \A j \in DOMAIN ev.errs : ev.errs[j].status = 429
            /\ Len(requests) = Len(ev.errs) + 1

GroupSizeWholeList(variant) == NumImages

GroupSize(variant) == IF variant = "limited" THEN ConcurrentImages ELSE BatchSize

Min(a, b) == IF a < b THEN a ELSE b

\* images.slice(i, i + size): the positions of the group
Slice(i, size, total) == (i + 1)..Min(i + size, total)

\* prompt id lists SpecBatch is run with: none, one or two of them name a
\* built-in prompt
BatchSelected ==
  { <<"custom_1">>, <<AllPromptIds[1]>>, <<"custom_1", AllPromptIds[1]>>,
    <<AllPromptIds[2], AllPromptIds[1]>> }

\* what analyzeImage gets from the evaluation of one prompt: a parsed
\* result, or the failed result made of the error it threw
PromptOutcomes(promptId) ==
  {ParseAnalysisResponse(p, promptId) : p \in {q \in ParsedChoices : q.match}}
  \cup {FailedResult(promptId, ServerError)}

PendingImage == [pc |-> "pending", results |-> <<>>, ret |-> NoReturn]

\* analyzeImage lines 270-292: the call runs up to `await getImageUrl`
StartedImage(np) ==
  [pc |-> "url", results |-> [k \in 1..np |-> NoResult], ret |-> NoReturn]

\* analyzeImage lines 321-333: returns once every prompt has its result
FinishIfComplete(task, img) ==
  IF \A k \in DOMAIN img.results : img.results[k] # NoResult
  THEN [img EXCEPT !.pc = "done", !.ret = SuccessImage(task, img.results)]
  ELSE img

\* analyzeImages lines 385-401: batch.map starts analyzeImage for every image
\* of the group that follows position i
StartGroup(r, i, size, np) ==
  [r EXCEPT !.pc = "group", !.i = i,
            !.imgs = [n \in DOMAIN r.imgs |->
                        IF n \in Slice(i, size, Len(r.images))
                        THEN StartedImage(np) ELSE r.imgs[n]]]

\* results.push(...batchResults) as it would be if only the successful
\* images were kept
PushSuccessfulOnly(results, batchResults) ==
  results \o SelectSeq(batchResults, LAMBDA r : r.status = "success")

\* analyzeImages line 402: results.push(...batchResults)
PushBatchResults(results, batchResults) == results \o batchResults

\* analyzeImages lines 415-421: onProgress for every result of the group,
\* each with results.length as `current`
ReportProgress(progress, results, total, batchResults) ==
  progress \o [j \in DOMAIN batchResults |->
                 [current |-> Len(results), total |-> total,
                  imagePath |-> batchResults[j].imagePath,
                  status |-> batchResults[j].status]]

\* lengths of the image list SpecBatch is run with: none, one, exactly one
\* group of either analyzer, and the longest list
BatchTotals == {0, 1, ConcurrentImages, BatchSize, NumImages}

InitBatch ==
  /\ now = 0
  /\ requests = <<>>
  /\ tokenUsage = <<>>
  /\ limiterOptions = ProdOptions
  /\ callers = [c \in Callers |-> IdleCaller]
  /\ analyzer \in {"limited", "direct"}
  /\ selectedPromptIds \in BatchSelected
  /\ image = [pc |-> "unused"]
  /\ evals = <<>>
  /\ post = [pc |-> "unused"]
  /\ bucket = [pc |-> "unused"]
  /\ \E total \in BatchTotals :
       run = [pc |-> "idle", images |-> [n \in 1..total |-> Task(n)], i |-> 0,
              imgs |-> [n \in 1..total |-> PendingImage],
              results |-> <<>>, progress |-> <<>>]

batchFixed == <<now, requests, tokenUsage, limiterOptions, callers,
                analyzer, selectedPromptIds, image, evals, post, bucket>>

\* analyzeImages is called: the loop of line 385 starts the first group, or
\* the empty list is returned
AnalyzeImagesStart ==
  /\ run.pc = "idle"
  /\ run' = IF Len(run.images) = 0
            THEN [run EXCEPT !.pc = "returned"]
            ELSE StartGroup(run, 0, GroupSize(analyzer),
                            Len(PromptsToUse(selectedPromptIds)))
  /\ UNCHANGED batchFixed

\* getImageUrl resolves for image n; its prompts are evaluated
BatchUrlResolves(n) ==
  /\ run.pc = "group"
  /\ run.imgs[n].pc = "url"
  /\ run' = [run EXCEPT !.imgs[n] =
               FinishIfComplete(run.images[n], [@ EXCEPT !.pc = "prompts"])]
  /\ UNCHANGED batchFixed

\* getImageUrl rejects for image n: analyzeImage's outer catch
BatchUrlFails(n) ==
  /\ run.pc = "group"
  /\ run.imgs[n].pc = "url"
  /\ run' = [run EXCEPT !.imgs[n] =
               [@ EXCEPT !.pc = "done", !.ret = ErrorImage(run.images[n], SignError)]]
  /\ UNCHANGED batchFixed

\* the evaluation of prompt k of image n ends, with a result or a throw; the
\* rate-limited analyzer evaluates the prompts in order, the direct one all
\* at once
PromptSettles(n, k) ==
  /\ run.pc = "group"
  /\ run.imgs[n].pc = "prompts"
  /\ run.imgs[n].results[k] = NoResult
  /\ analyzer = "limited" => \A j \in 1..(k - 1) : run.imgs[n].results[j] # NoResult
  /\ \E outcome \in PromptOutcomes(PromptsToUse(selectedPromptIds)[k]) :
       run' = [run EXCEPT !.imgs[n] =
                 FinishIfComplete(run.images[n], [@ EXCEPT !.results[k] = outcome])]
  /\ UNCHANGED batchFixed

\* Promise.all of the group resolves (lines 401-421): the results are
\* pushed and reported; then the next group starts (rate-limited analyzer),
\* the delay between two groups starts (direct analyzer), or the list is
\* returned
GroupDone ==
  /\ run.pc = "group"
  /\ LET size == GroupSize(analyzer)
         total == Len(run.images)
         group == Slice(run.i, size, total)
     IN /\ \A n \in group : run.imgs[n].pc = "done"
        /\ LET batchResults == [j \in 1..Cardinality(group) |-> run.imgs[run.i + j].ret]
               results == PushBatchResults(run.results, batchResults)
               r == [run EXCEPT !.results = results,
                                !.progress = ReportProgress(@, results, total, batchResults)]
           IN run' = IF run.i + size < total
                     THEN IF analyzer = "limited"
                          THEN StartGroup(r, run.i + size, size,
                                          Len(PromptsToUse(selectedPromptIds)))
                          ELSE [r EXCEPT !.pc = "delay"]
                     ELSE [r EXCEPT !.pc = "returned"]
  /\ UNCHANGED batchFixed

\* direct analyzer lines 366-370: the delay between two groups ends
DelayEnds ==
  /\ run.pc = "delay"
  /\ run' = StartGroup(run, run.i + BatchSize, BatchSize,
                       Len(PromptsToUse(selectedPromptIds)))
  /\ UNCHANGED batchFixed

ImageStep(n) ==
  \/ BatchUrlResolves(n)
  \/ BatchUrlFails(n)
  \/ \E k \in 1..Len(PromptsToUse(selectedPromptIds)) : PromptSettles(n, k)

NextBatch ==
  \/ AnalyzeImagesStart
  \/ \E n \in DOMAIN run.imgs : BatchUrlResolves(n)
  \/ \E n \in DOMAIN run.imgs : BatchUrlFails(n)
  \/ \E n \in DOMAIN run.imgs :
       \E k \in 1..Len(PromptsToUse(selectedPromptIds)) : PromptSettles(n, k)
  \/ GroupDone
  \/ DelayEnds

SpecBatch == InitBatch /\ [][NextBatch]_vars

\* C10: analyzeImages returns one ImageAnalysisResult per task, in task
\* order, whatever the status of each image: the list has `total` entries,
\* every successful image has all its prompt results, and while the run has
\* not returned every started image and the run itself can still move on.
C10_OneResultPerTask ==
  /\ run.pc = "returned" =>
       /\ Len(run.results) = Len(run.images)
       /\ \A n \in DOMAIN run.results :
            /\ run.results[n].imagePath = run.images[n].path
            /\ run.results[n].status \in {"success", "error"}
            /\ run.results[n].status = "success" =>
                 Len(run.results[n].results) = Len(PromptsToUse(selectedPromptIds))
  /\ run.pc \in {"idle", "group", "delay"} =>
       /\ run.pc # "idle" => Len(run.results) < Len(run.images)
       /\ ENABLED NextBatch
       /\ \A n \in DOMAIN run.imgs :
            run.imgs[n].pc \in {"url", "prompts"} => ENABLED ImageStep(n)

\* C10 witness: the first image of the first group ended with status=error,
\* and its neighbour and the last image of the last group were analyzed.
C10_Witness ==
  /\ run.pc = "returned"
  /\ Len(run.images) = NumImages
  /\ Len(run.results) = NumImages
  /\ run.results[1].status = "error"
  /\ run.results[2].status = "success"
  /\ Len(run.results[2].results) = 2
  /\ run.results[NumImages].status = "success"

\* the prompt evaluations in progress: <<image, prompt>>.  An evaluation has
\* at most one provider call in flight (SpecEval: one position per evaluation)
InFlightEvals ==
  IF run.pc \in {"idle", "unused"} THEN {}
  ELSE {nk \in (DOMAIN run.imgs) \X (1..Len(PromptsToUse(selectedPromptIds))) :
          LET img == run.imgs[nk[1]]
          IN /\ img.pc = "prompts"
             /\ img.results[nk[2]] = NoResult
             /\ analyzer = "limited" =>
                  \A j \in 1..(nk[2] - 1) : img.results[j] # NoResult}

\* C12: no image of a group has started before every image of the groups
\* before it has resolved, and the prompt evaluations in progress (hence the
\* provider calls in flight) never exceed group size x prompt set size.
C12_GroupsSequentialBoundedLoad ==
  run.pc \in {"group", "delay", "returned"} =>
    LET size == IF analyzer = "limited" THEN ConcurrentImages ELSE BatchSize
        np == Len(PromptsToUse(selectedPromptIds))
    IN /\ \A n, m \in DOMAIN run.imgs :
            ((m - 1) \div size < (n - 1) \div size /\ run.imgs[n].pc # "pending")
              => run.imgs[m].pc = "done"
       /\ Cardinality({n \in DOMAIN run.imgs : run.imgs[n].pc \in {"url", "prompts"}})
            <= size
       /\ Cardinality(InFlightEvals) <= size * np

\* C12 witness: the second group of the direct analyzer has its two prompt
\* evaluations in flight after the five images of the first group resolved.
C12_Witness ==
  /\ analyzer = "direct"
  /\ run.pc = "group"
  /\ run.i = BatchSize
  /\ Len(run.results) = BatchSize
  /\ Cardinality(InFlightEvals) = 2

\* C26: the tasks are split, in input order, into consecutive groups of
\* exactly 4, the last one holding the remainder: every group starts after a
\* multiple of 4 tasks, and the tasks started so far are those of the groups
\* up to the current one.
C26_GroupsOfFour ==
  run.pc = "group" =>
    LET total == Len(run.images)
        started == {n \in DOMAIN run.imgs : run.imgs[n].pc # "pending"}
    IN /\ run.i % 4 = 0
       /\ started = 1..Min(run.i + 4, total)

(***************************************************************************)
(* SpecStream: the POST handler of /api/analyze/stream                     *)
(***************************************************************************)
\* post is the state of one request:
\*   pc             "body", "listing", "analyzing" (await analyzeImages),
\*                  "finalFlush" (line 188), "errorFlush" (line 199),
\*                  "outerFlush" (line 236), "closed"
\*   date, listed, errorsAt   the request: its date, how many images the
\*                  listing finds, the images whose getImageUrl rejects
\*   total          images.length
\*   allResults, checkpointPath, savedPath, lastSaveTime   the route's variables
\*   events         what send() has enqueued
\*   flushes        calls of saveAnalysisResults so far
\*   ticks          moves of the clock so far
\*   loopThrew      analyzeImages rejected
\* bucket is [objects, inflight, failed]: the result objects by path, the
\* writes of saveAnalysisResults that have not finished, and how many
\* writes were rejected
NoPath == <<>>

\* saveAnalysisResults lines 619-621
ResultPath(t) == <<"results", t \div OneSecond>>

CountStatus(results, status) ==
  Cardinality({i \in DOMAIN results : results[i].status = status})

\* the document as it would be if the summary counted the images of the
\* run in place of the results written
DocumentTotalOfRun(results, totalImages, existingPath) ==
  [results |-> results,
   totalImages |-> IF totalImages # 0 THEN totalImages ELSE Len(results),
   processedImages |-> Len(results),
   total |-> IF totalImages # 0 THEN totalImages ELSE Len(results),
   successful |-> CountStatus(results, "success"),
   failed |-> CountStatus(results, "error"),
   isPartial |-> existingPath # NoPath]

\* saveAnalysisResults lines 629-644: resultData
Document(results, totalImages, existingPath) ==
  [results |-> results,
   totalImages |-> IF totalImages # 0 THEN totalImages ELSE Len(results),
   processedImages |-> Len(results),
   total |-> Len(results),
   successful |-> CountStatus(results, "success"),
   failed |-> CountStatus(results, "error"),
   isPartial |-> existingPath # NoPath]

\* saveAnalysisResults lines 611-654, up to `await file.save`: the path and
\* the document of the write
SaveAnalysisResults(results, totalImages, existingPath, t) ==
  [path |-> IF existingPath # NoPath THEN existingPath ELSE ResultPath(t),
   doc |-> Document(results, totalImages, existingPath)]

\* an event of the stream
Event(type, current, total, img, path) ==
  [type |-> type, current |-> current, total |-> total, image |-> img, path |-> path]

\* send(): enqueues on the open controller (it throws on a closed one, which
\* only the continuation of a periodic save can meet, inside its try)
Send(p, ev) ==
  IF p.pc = "closed" THEN p ELSE [p EXCEPT !.events = Append(@, ev)]

\* saveIncremental lines 92-105 / route lines 236-244: saveAnalysisResults is
\* called with the accumulated results and the checkpoint path known now
StartFlush(st, t, kind) ==
  LET p == st.post
      w == SaveAnalysisResults(p.allResults, p.total, p.checkpointPath, t)
  IN [post |-> [p EXCEPT !.flushes = @ + 1],
      bucket |-> [st.bucket EXCEPT !.inflight =
                    @ \cup {[id |-> p.flushes + 1, kind |-> kind,
                             path |-> w.path, doc |-> w.doc]}]]

\* route line 147-151: result.results.some(r => r.match)
HasMatch(result) == \E k \in DOMAIN result.results : result.results[k].match

\* the save test as it would be without the elapsed-time trigger
ShouldSaveCountOnly(count, t, lastSaveTime) ==
  count % SAVE_BATCH_SIZE = 0

\* route lines 157-159: shouldSave
ShouldSave(count, t, lastSaveTime) ==
  \/ count % SAVE_BATCH_SIZE = 0
  \/ (t - lastSaveTime) >= SAVE_INTERVAL

\* route lines 142-182: the onProgress callback given to analyzeImages
OnProgress(st, t, current, total, result) ==
  LET p0 == Send(st.post, Event("progress", current, total, 0, NoPath))
      p1 == [p0 EXCEPT !.allResults = Append(@, result)]
      p2 == Send(p1, Event("image_processed", 0, 0, result.imagePath, NoPath))
      p3 == IF HasMatch(result)
            THEN Send(p2, Event("match", 0, 0, result.imagePath, NoPath)) ELSE p2
  IN IF ShouldSave(Len(p3.allResults), t, p3.lastSaveTime) /\ Len(p3.allResults) > 0
     THEN StartFlush([post |-> [p3 EXCEPT !.lastSaveTime = t], bucket |-> st.bucket],
                     t, "periodic")
     ELSE [post |-> p3, bucket |-> st.bucket]

\* analyzeImages lines 416-420: batchResults.forEach(result =>
\* onProgress(results.length, total, result)), from position j on
RECURSIVE ForEachProgress(_, _, _, _, _, _)
ForEachProgress(st, t, batchResults, j, current, total) ==
  IF j > Len(batchResults) THEN st
  ELSE ForEachProgress(OnProgress(st, t, current, total, batchResults[j]),
                       t, batchResults, j + 1, current, total)

\* what analyzeImage returns for image n of the request
ImageResult(n, errorsAt, promptId) ==
  IF n \in errorsAt THEN ErrorImage(Task(n), SignError)
  ELSE SuccessImage(Task(n),
         <<ParseAnalysisResponse(CHOOSE d \in ParsedChoices : d.match = (n % 2 = 1),
                                 promptId)>>)

\* image lists and failing images SpecStream is run with
StreamTotals == {0, 1, 2, StreamImages}
ErrorPatterns == {{}, {1}}

InitStream ==
  /\ now = 0
  /\ requests = <<>>
  /\ tokenUsage = <<>>
  /\ limiterOptions = ProdOptions
  /\ callers = [c \in Callers |-> IdleCaller]
  /\ analyzer \in {"limited", "direct"}
  /\ selectedPromptIds = <<AllPromptIds[1]>>
  /\ image = [pc |-> "unused"]
  /\ evals = <<>>
  /\ run = [pc |-> "idle", images |-> <<>>, i |-> 0, imgs |-> <<>>,
            results |-> <<>>, progress |-> <<>>]
  /\ \E date \in {"", "2025-11-23"}, total \in StreamTotals, errorsAt \in ErrorPatterns :
       post = [pc |-> "body", date |-> date, listed |-> total, errorsAt |-> errorsAt,
               total |-> 0, allResults |-> <<>>, checkpointPath |-> NoPath,
               savedPath |-> NoPath, lastSaveTime |-> 0, events |-> <<>>,
               flushes |-> 0, ticks |-> 0, loopThrew |-> FALSE]
  /\ bucket = [objects |-> [path \in {} |-> 0], inflight |-> {}, failed |-> 0]

streamFixed == <<requests, tokenUsage, limiterOptions, callers,
                 analyzer, selectedPromptIds, image, evals>>

\* route lines 214-264, the outer catch: one more `error` event, then the
\* accumulated results are written once more, or the stream is closed
OuterCatch(st, t) ==
  LET st1 == [st EXCEPT !.post = Send(@, Event("error", 0, 0, 0, NoPath))]
  IN IF Len(st1.post.allResults) > 0
     THEN [StartFlush(st1, t, "outer") EXCEPT !.post.pc = "outerFlush"]
     ELSE [st1 EXCEPT !.post.pc = "closed"]

\* route lines 189-210, catch (analysisError): the accumulated results are
\* saved, or the error is reported and thrown again
InnerCatch(st, t) ==
  IF Len(st.post.allResults) > 0
  THEN [StartFlush(st, t, "error") EXCEPT !.post.pc = "errorFlush"]
  ELSE OuterCatch([st EXCEPT !.post = Send(@, Event("error", 0, 0, 0, NoPath))], t)

\* the continuation as it would be if savedPath were never assigned
AfterSaveNoSavedPath(p, path, isFinal) ==
  Send([p EXCEPT !.checkpointPath = IF @ = NoPath THEN path ELSE @],
       Event("log", 0, 0, 0, path))

\* saveIncremental lines 107-122: the write succeeded
AfterSave(p, path, isFinal) ==
  Send([p EXCEPT !.checkpointPath = IF @ = NoPath THEN path ELSE @,
                 !.savedPath = IF isFinal THEN path ELSE @],
       Event("log", 0, 0, 0, path))

\* route lines 23-41: the body is read and the date checked
PostStart ==
  /\ post.pc = "body"
  /\ post' = IF post.date = ""
             THEN [Send(post, Event("error", 0, 0, 0, NoPath)) EXCEPT !.pc = "closed"]
             ELSE [Send(Send(post, Event("start", 0, 0, 0, NoPath)),
                        Event("log", 0, 0, 0, NoPath)) EXCEPT !.pc = "listing"]
  /\ UNCHANGED <<now, run, bucket>>
  /\ UNCHANGED streamFixed

\* route lines 58-141: the images are known; with none the run ends, else
\* analyzeImages is called and starts its first group
ListingResolves ==
  /\ post.pc = "listing"
  /\ LET total == post.listed
     IN IF total = 0
        THEN /\ post' = [Send(post, Event("error", 0, 0, 0, NoPath)) EXCEPT !.pc = "closed"]
             /\ run' = run
        ELSE /\ post' = [Send(Send(post, Event("log", 0, 0, 0, NoPath)),
                              Event("progress", 0, total, 0, NoPath))
                           EXCEPT !.pc = "analyzing", !.total = total,
                                  !.lastSaveTime = now]
             /\ run' = StartGroup([run EXCEPT !.images = [n \in 1..total |-> Task(n)],
                                              !.imgs = [n \in 1..total |-> PendingImage]],
                                  0, GroupSize(analyzer),
                                  Len(PromptsToUse(selectedPromptIds)))
  /\ UNCHANGED <<now, bucket>>
  /\ UNCHANGED streamFixed

\* getImageUrl or listImages rejects (lines 49, 61): the outer catch
ListingFails ==
  /\ post.pc = "listing"
  /\ post' = OuterCatch([post |-> post, bucket |-> bucket], now).post
  /\ UNCHANGED <<now, run, bucket>>
  /\ UNCHANGED streamFixed

\* analyzeImage of image n returns
StreamImageResolves(n) ==
  /\ post.pc = "analyzing"
  /\ run.pc = "group"
  /\ run.imgs[n].pc = "url"
  /\ run' = [run EXCEPT !.imgs[n] =
               [@ EXCEPT !.pc = "done",
                         !.ret = ImageResult(n, post.errorsAt,
                                             PromptsToUse(selectedPromptIds)[1])]]
  /\ UNCHANGED <<now, post, bucket>>
  /\ UNCHANGED streamFixed

\* Promise.all of the group resolves: analyzeImages pushes the results and
\* calls onProgress for each; then the next group or the delay starts, or
\* analyzeImages returns and the route starts its final save (line 188)
StreamGroupDone ==
  /\ post.pc = "analyzing"
  /\ run.pc = "group"
  /\ LET size == GroupSize(analyzer)
         total == Len(run.images)
         group == Slice(run.i, size, total)
     IN /\ \A n \in group : run.imgs[n].pc = "done"
        /\ LET batchResults == [j \in 1..Cardinality(group) |-> run.imgs[run.i + j].ret]
               results == PushBatchResults(run.results, batchResults)
               r == [run EXCEPT !.results = results,
                                !.progress = ReportProgress(@, results, total, batchResults)]
               st == ForEachProgress([post |-> post, bucket |-> bucket], now,
                                     batchResults, 1, Len(results), total)
               final == IF Len(st.post.allResults) = 0
                        THEN [st EXCEPT !.post =
                                [Send(@, Event("complete", 0, 0, 0, NoPath))
                                   EXCEPT !.pc = "closed"]]
                        ELSE [StartFlush(st, now, "final") EXCEPT !.post.pc = "finalFlush"]
           IN IF run.i + size < total
              THEN /\ run' = IF analyzer = "limited"
                             THEN StartGroup(r, run.i + size, size,
                                             Len(PromptsToUse(selectedPromptIds)))
                             ELSE [r EXCEPT !.pc = "delay"]
                   /\ post' = st.post
                   /\ bucket' = st.bucket
              ELSE /\ run' = [r EXCEPT !.pc = "returned"]
                   /\ post' = final.post
                   /\ bucket' = final.bucket
  /\ UNCHANGED now
  /\ UNCHANGED streamFixed

\* direct analyzer: the delay between two groups ends
StreamDelayEnds ==
  /\ post.pc = "analyzing"
  /\ run.pc = "delay"
  /\ run' = StartGroup(run, run.i + BatchSize, BatchSize,
                       Len(PromptsToUse(selectedPromptIds)))
  /\ UNCHANGED <<now, post, bucket>>
  /\ UNCHANGED streamFixed

\* analyzeImages rejects while the loop is running: catch (analysisError)
LoopThrows ==
  /\ post.pc = "analyzing"
  /\ run.pc \in {"group", "delay"}
  /\ run' = [run EXCEPT !.pc = "failed"]
  /\ LET st == InnerCatch([post |-> [post EXCEPT !.loopThrew = TRUE],
                           bucket |-> bucket], now)
     IN post' = st.post /\ bucket' = st.bucket
  /\ UNCHANGED now
  /\ UNCHANGED streamFixed

\* the rejection as it would be if the route's .catch were missing and the
\* rejected save ended the run
PeriodicRejectedStopsRun(p) ==
  [Send(p, Event("error", 0, 0, 0, NoPath)) EXCEPT !.pc = "closed"]

\* saveIncremental lines 123-127 and route lines 163-166: a periodic save
\* was rejected; the warning is sent and the .catch of the route logs the error
PeriodicRejected(p) == Send(p, Event("log", 0, 0, 0, NoPath))

\* a write of saveAnalysisResults ends (file.save resolves or rejects) and
\* the code that awaits it goes on
FlushLands(f, ok) ==
  /\ f \in bucket.inflight
  /\ LET b == [bucket EXCEPT !.inflight = @ \ {f},
                             !.objects = IF ok THEN (f.path :> f.doc) @@ @ ELSE @,
                             !.failed = IF ok THEN @ ELSE @ + 1]
         warned == Send(post, Event("log", 0, 0, 0, NoPath))
         st == CASE f.kind = "periodic" ->
                      [post |-> IF ok THEN AfterSave(post, f.path, FALSE)
                                ELSE PeriodicRejected(post),
                       bucket |-> b]
                 [] f.kind = "final" ->
                      IF ok
                      THEN LET p == AfterSave(post, f.path, TRUE)
                           IN [post |-> [Send(p, Event("complete", 0, 0, 0, p.savedPath))
                                           EXCEPT !.pc = "closed"],
                               bucket |-> b]
                      ELSE InnerCatch([post |-> warned, bucket |-> b], now)
                 [] f.kind = "error" ->
                      IF ok
                      THEN LET p == AfterSave(post, f.path, TRUE)
                           IN OuterCatch(
                                [post |-> Send(Send(p, Event("log", 0, 0, 0, f.path)),
                                               Event("error", 0, 0, 0, NoPath)),
                                 bucket |-> b], now)
                      ELSE OuterCatch(
                             [post |-> Send(warned, Event("error", 0, 0, 0, NoPath)),
                              bucket |-> b], now)
                 [] f.kind = "outer" ->
                      [post |-> [(IF ok THEN Send(post, Event("log", 0, 0, 0, f.path))
                                  ELSE post) EXCEPT !.pc = "closed"],
                       bucket |-> b]
     IN post' = st.post /\ bucket' = st.bucket
  /\ UNCHANGED <<now, run>>
  /\ UNCHANGED streamFixed

\* time passes while the run awaits
StreamTick ==
  /\ post.pc \in {"analyzing", "finalFlush", "errorFlush", "outerFlush"}
  /\ post.ticks < MaxTicks
  /\ \E d \in {OneSecond, SAVE_INTERVAL} : now' = now + d
  /\ post' = [post EXCEPT !.ticks = @ + 1]
  /\ UNCHANGED <<run, bucket>>
  /\ UNCHANGED streamFixed

NextStream ==
  \/ PostStart
  \/ ListingResolves
  \/ ListingFails
  \/ \E n \in DOMAIN run.imgs : StreamImageResolves(n)
  \/ StreamGroupDone
  \/ StreamDelayEnds
  \/ LoopThrows
  \/ \E f \in bucket.inflight : FlushLands(f, TRUE)
  \/ \E f \in bucket.inflight : FlushLands(f, FALSE)
  \/ StreamTick

SpecStream == InitStream /\ [][NextStream]_vars

EventsOfType(type) == SelectSeq(post.events, LAMBDA e : e.type = type)
RunEnded == post.pc = "closed" /\ bucket.inflight = {}
Completed == Len(EventsOfType("complete")) > 0

\* C13: the progress events carry an increasing count of completed images:
\* every event sent for a completed image carries a greater `current` than
\* the progress event before it, and the last one of a completed run has
\* current = total.
C13_ProgressCountsEachImage ==
  post.pc # "unused" =>
    LET ps == EventsOfType("progress")
    IN /\ \A i \in 2..Len(ps) : ps[i].current > ps[i - 1].current
       /\ Completed => ps[Len(ps)].current = post.total

\* C14: the progress event sent for a completed image carries as `current`
\* the number of results appended to allResults when it is sent, this image
\* included.
C14_CurrentIsAccumulatorLength ==
  post.pc # "unused" =>
    \A i \in DOMAIN post.events :
      post.events[i].type = "image_processed" =>
        /\ i > 1
        /\ post.events[i - 1].type = "progress"
        /\ post.events[i - 1].current =
             Cardinality({j \in 1..i : post.events[j].type = "image_processed"})

\* the paths the writes of the run went or go to
WrittenPaths == (DOMAIN bucket.objects) \cup {f.path : f \in bucket.inflight}

\* C15: all flushes of a run write to one object path: never is a second
\* result object created or being written.
C15_OneCheckpointObject ==
  post.pc # "unused" => Cardinality(WrittenPaths) <= 1

\* C16: every document written by a periodic flush has isPartial = true, and
\* once `complete` was sent and all writes have ended the stored checkpoint
\* has isPartial = false.
C16_PartialUntilFinal ==
  post.pc # "unused" =>
    /\ \A f \in bucket.inflight : f.kind = "periodic" => f.doc.isPartial
    /\ (Completed /\ RunEnded) =>
         \A path \in DOMAIN bucket.objects : ~bucket.objects[path].isPartial

\* C17: when analyzeImages threw after N results were accumulated
\* (0 < N < total), then after the run, even if every write succeeded, the
\* checkpoint holds exactly these N results and has isPartial = true.
C17_PartialFailureDurability ==
  (/\ post.pc = "closed"
   /\ post.loopThrew
   /\ RunEnded
   /\ bucket.failed = 0
   /\ Len(post.allResults) > 0
   /\ Len(post.allResults) < post.total) =>
    /\ DOMAIN bucket.objects # {}
    /\ \A path \in DOMAIN bucket.objects :
         /\ bucket.objects[path].results = post.allResults
         /\ bucket.objects[path].isPartial

\* C18: a run that ends without `complete` has sent exactly one `error`
\* event.
C18_OneErrorEvent ==
  (post.pc = "closed" /\ ~Completed) => Len(EventsOfType("error")) = 1

\* C19: when a run has failed with results accumulated, then after the run,
\* even if every write succeeded, a path sent on the stream names an object
\* that holds the accumulated results.
C19_FailedRunReportsCheckpoint ==
  (/\ post.pc = "closed"
   /\ ~Completed
   /\ RunEnded
   /\ bucket.failed = 0
   /\ Len(post.allResults) > 0) =>
    \E i \in DOMAIN post.events :
      /\ post.events[i].path # NoPath
      /\ post.events[i].path \in DOMAIN bucket.objects
      /\ bucket.objects[post.events[i].path].results = post.allResults

\* C20: `complete` is sent at most once, as the last event, after a progress
\* event with current = total and after the final save has returned; it
\* carries the path that save wrote to, and the run has sent no `error`.
C20_CompleteOnceAfterFinalSave ==
  post.pc # "unused" =>
    /\ Len(EventsOfType("complete")) <= 1
    /\ \A i \in DOMAIN post.events :
         post.events[i].type = "complete" =>
           /\ i = Len(post.events)
           /\ post.pc = "closed"
           /\ \E j \in 1..(i - 1) :
                /\ post.events[j].type = "progress"
                /\ post.events[j].current = post.total
                /\ post.total > 0
           /\ Len(post.allResults) = post.total
           /\ post.events[i].path # NoPath
           /\ post.events[i].path = post.savedPath
           /\ post.events[i].path \in DOMAIN bucket.objects
           /\ \A f \in bucket.inflight : f.kind = "periodic"
           /\ Len(EventsOfType("error")) = 0

\* C20 witness: a run of the longest list, with a failed image and after a
\* periodic save, has sent `complete`.
C20_Witness ==
  /\ post.pc = "closed"
  /\ Completed
  /\ post.total = StreamImages
  /\ post.errorsAt = {1}
  /\ post.flushes >= 2

\* a periodic save is rejected in this step
PeriodicSaveRejected ==
  /\ bucket'.failed = bucket.failed + 1
  /\ \E f \in bucket.inflight \ bucket'.inflight : f.kind = "periodic"

\* the run has every result: analyzeImages returned, after one callback
\* (one progress and one image_processed event) per image
AllImagesReported ==
  /\ Len(post.allResults) = post.total
  /\ Len(EventsOfType("progress")) = post.total + 1
  /\ Len(EventsOfType("image_processed")) = post.total

\* C21: a rejected periodic save never stops the run: the step changes
\* neither the position of the route nor the state of analyzeImages (so
\* every step of the analysis that was possible still is) nor the
\* accumulated results, it sends no error event, and a run reaches its final
\* save or its complete event only with every image analyzed and reported.
C21_PeriodicFailureDoesNotStop ==
  [][/\ PeriodicSaveRejected =>
          /\ post'.pc = post.pc
          /\ run' = run
          /\ post'.allResults = post.allResults
          /\ post'.checkpointPath = post.checkpointPath
          /\ EventsOfType("error")' = EventsOfType("error")
     /\ (post'.pc = "finalFlush" \/ Completed') => AllImagesReported']_vars

\* C21 witness: a run of StreamImages images lost a periodic save and still
\* completed with every image reported.
C21_Witness ==
  /\ Completed
  /\ bucket.failed > 0
  /\ post.total = StreamImages
  /\ AllImagesReported

\* the periodic saves started in this step, by the number of results each
\* was started with
PeriodicStarted ==
  {f.doc.processedImages :
     f \in {g \in bucket'.inflight \ bucket.inflight : g.kind = "periodic"}}

\* the lengths at which the results appended in this step call for a save:
\* the multiples of 10, and the first length when 30 s have passed since
\* the reference (a save started in this step moves the reference to now)
SavesCalledFor ==
  LET n0 == Len(post.allResults)
      n1 == Len(post'.allResults)
  IN {L \in (n0 + 1)..n1 : L % 10 = 0}
     \cup (IF n1 > n0 /\ now - post.lastSaveTime >= 30000 THEN {n0 + 1} ELSE {})

\* C25: a periodic save is started right after a result is appended
\* exactly when the number of results is a multiple of 10 or at least 30 s
\* have passed since the last periodic save was started (or since the run
\* started); starting one moves that reference to the current time, and
\* nothing else moves it.
C25_PeriodicSaveTriggers ==
  [][post.pc = "analyzing" =>
       /\ PeriodicStarted = SavesCalledFor
       /\ post'.lastSaveTime = IF SavesCalledFor # {} THEN now
                               ELSE post.lastSaveTime]_vars

\* C25 witness: a periodic save was started by the elapsed time alone, at a
\* number of results that is no multiple of 10, and the reference moved.
C25_Witness ==
  /\ post.pc = "analyzing"
  /\ post.lastSaveTime >= SAVE_INTERVAL
  /\ \E f \in bucket.inflight :
       f.kind = "periodic" /\ f.doc.processedImages % SAVE_BATCH_SIZE # 0

\* C27: once a run has completed and no write is under way, the object at
\* the path the complete event names holds the results of all `total`
\* images, whatever the order in which the writes ended.
C27_CompletedRunHoldsAll ==
  (RunEnded /\ Completed /\ bucket.failed = 0) =>
    /\ post.savedPath \in DOMAIN bucket.objects
    /\ bucket.objects[post.savedPath].results = post.allResults
    /\ Len(bucket.objects[post.savedPath].results) = post.total

\* every document handed to file.save so far: under way or stored
DocumentsWritten ==
  {f.doc : f \in bucket.inflight} \cup {bucket.objects[q] : q \in DOMAIN bucket.objects}

\* C30: every document written has summary.total = metadata.processedImages
\* = the number of its results, summary.successful + summary.failed =
\* summary.total, and processedImages is at most totalImages.
C30_DocumentCountsAgree ==
  \A d \in DocumentsWritten :
    /\ d.total = Len(d.results)
    /\ d.processedImages = Len(d.results)
    /\ d.successful + d.failed = d.total
    /\ d.successful = Cardinality({n \in DOMAIN d.results : d.results[n].status = "success"})
    /\ d.processedImages <= d.totalImages
    /\ d.totalImages = post.total

\* C30 witness: a checkpoint of a run still under way is stored with a
\* failed and a successful image and fewer results than the run has images.
C30_Witness ==
  \E q \in DOMAIN bucket.objects :
    LET d == bucket.objects[q]
    IN /\ d.failed = 1
       /\ d.successful >= 1
       /\ d.processedImages < d.totalImages

(***************************************************************************)
(* SpecParse: the normalisation of a provider answer                       *)
(***************************************************************************)
\* values of the keys of a breakdown: numbers and values that are no number
BreakdownValues == {Num(n) : n \in (-1)..MaxValue} \cup {Str}

\* what JSON.parse may give for parsed.count: a number, a keyed breakdown,
\* a string, null
CountChoices ==
  {Num(n) : n \in (-MaxValue)..MaxValue}
  \cup {Obj(vals) : vals \in UNION {[1..k -> BreakdownValues] : k \in 0..MaxKeys}}
  \cup {Str, Null}

\* image is [pc, parsed, thrown, result]: the parsed answer of one provider
\* call, the error the evaluation threw, and the AnalysisResult analyzeImage
\* holds for the prompt
InitParse ==
  /\ now = 0
  /\ requests = <<>>
  /\ tokenUsage = <<>>
  /\ limiterOptions = ProdOptions
  /\ callers = [c \in Callers |-> IdleCaller]
  /\ analyzer \in {"limited", "direct"}
  /\ selectedPromptIds = <<AllPromptIds[1]>>
  /\ \E count \in CountChoices :
       image = [pc |-> "answered",
                parsed |-> [match |-> TRUE, count |-> count, description |-> "vehicles",
                            details |-> "mixed traffic", confidence |-> "high"],
                thrown |-> NoError, result |-> NoResult]
  /\ evals = <<>>
  /\ run = [pc |-> "unused"]
  /\ post = [pc |-> "unused"]
  /\ bucket = [pc |-> "unused"]

\* evaluator lines 163-179: the content is JSON and is normalised
ParseAnswer ==
  /\ image.pc = "answered"
  /\ image' = [image EXCEPT !.pc = "parsed",
                            !.result = ParseAnalysisResponse(image.parsed,
                                                             selectedPromptIds[1])]
  /\ UNCHANGED <<analyzer, selectedPromptIds, evals, run, post, bucket>>
  /\ UNCHANGED limiterVars

\* analyzeImage lines 306-317: the evaluation threw instead
EvaluationThrows ==
  /\ image.pc = "answered"
  /\ \E e \in {NoResponseError, ParseError, ServerError} :
       image' = [image EXCEPT !.pc = "failed", !.thrown = e,
                              !.result = FailedResult(selectedPromptIds[1], e)]
  /\ UNCHANGED <<analyzer, selectedPromptIds, evals, run, post, bucket>>
  /\ UNCHANGED limiterVars

NextParse == ParseAnswer \/ EvaluationThrows

SpecParse == InitParse /\ [][NextParse]_vars

\* the sum of the numeric values of a breakdown, key by key
RECURSIVE SumOfKeys(_, _)
SumOfKeys(vals, keys) ==
  IF keys = {} THEN 0
  ELSE LET k == CHOOSE k \in keys : TRUE
       IN vals[k].n + SumOfKeys(vals, keys \ {k})
NumericKeys(vals) == {k \in DOMAIN vals : vals[k].t = "number"}

\* C22: for a keyed breakdown the normalised count is the sum of all its
\* numeric values, for a scalar number it is that number.
C22_CountIsSumOrScalar ==
  image.pc = "parsed" =>
    LET count == image.parsed.count
    IN /\ count.t = "number" => image.result.count = count.n
       /\ count.t = "object" =>
            image.result.count = SumOfKeys(count.vals, NumericKeys(count.vals))

\* C22 witness: a breakdown of three keys, one of them no number, was
\* normalised to the sum of the other two.
C22_Witness ==
  /\ image.pc = "parsed"
  /\ image.parsed.count = Obj(<<Num(2), Str, Num(1)>>)
  /\ image.result.count = 3

\* C23: every AnalysisResult, normalised from an answer or built by the
\* failure path, has a count of at least 0, whatever the `count` field held.
C23_CountNonNegative ==
  image.pc \in {"parsed", "failed"} => image.result.count >= 0

====
